---- MODULE Spec2Model ----
(***************************************************************************)
(* A model of src/index.js of Termux-Agent: the perception-action loop     *)
(* runAgent, the layout fetch getUiTree/getContext, the element extractor  *)
(* extractUiElements and the reply parser that lives inside runAgent.      *)
(*                                                                         *)
(* JavaScript strings are TLA+ strings; TLC evaluates Len, SubSeq and \o   *)
(* on them, so trim, split, startsWith, toUpperCase, parseInt and the      *)
(* regular expressions of the source are computed character by character.  *)
(***************************************************************************)
EXTENDS Integers, Sequences, FiniteSets, TLC

(***************************************************************************)
(* Bounds of the model.                                                    *)
(***************************************************************************)
\* planner calls (loop iterations) explored in one run
MaxTurns == 2
\* calls of getUiTree that return null explored in one run
MaxNullFetches == 1

(***************************************************************************)
(* String primitives of JavaScript used by the source.                     *)
(***************************************************************************)
Ch(s, i) == SubSeq(s, i, i)

LowerAlpha == "abcdefghijklmnopqrstuvwxyz"
UpperAlpha == "ABCDEFGHIJKLMNOPQRSTUVWXYZ"
DigitChars == "0123456789"

\* the characters String.prototype.trim and the regex class \s remove
IsWhitespace(c) == c \in {" ", "\t", "\n", "\r", "\f"}

IsDigit(c) == \E i \in 1..10 : Ch(DigitChars, i) = c

DigitValue(c) == (CHOOSE i \in 1..10 : Ch(DigitChars, i) = c) - 1

UpperChar(c) ==
    IF \E i \in 1..26 : Ch(LowerAlpha, i) = c
    THEN Ch(UpperAlpha, CHOOSE i \in 1..26 : Ch(LowerAlpha, i) = c)
    ELSE c

RECURSIVE ToUpperCase(_)
ToUpperCase(s) ==
    IF Len(s) = 0 THEN ""
    ELSE UpperChar(Ch(s, 1)) \o ToUpperCase(SubSeq(s, 2, Len(s)))

RECURSIVE TrimStart(_)
TrimStart(s) ==
    IF Len(s) > 0 /\ IsWhitespace(Ch(s, 1))
    THEN TrimStart(SubSeq(s, 2, Len(s)))
    ELSE s

RECURSIVE TrimEnd(_)
TrimEnd(s) ==
    IF Len(s) > 0 /\ IsWhitespace(Ch(s, Len(s)))
    THEN TrimEnd(SubSeq(s, 1, Len(s) - 1))
    ELSE s

Trim(s) == TrimEnd(TrimStart(s))

StartsWith(s, p) == Len(s) >= Len(p) /\ SubSeq(s, 1, Len(p)) = p

EndsWith(s, p) == Len(s) >= Len(p) /\ SubSeq(s, Len(s) - Len(p) + 1, Len(s)) = p

\* s.slice(n): the string from (0-based) offset n on
Slice(s, n) == SubSeq(s, n + 1, Len(s))

\* the index of the first occurrence of the one-character separator, or 0
RECURSIVE IndexOfChar(_, _, _)
IndexOfChar(s, c, from) ==
    IF from > Len(s) THEN 0
    ELSE IF Ch(s, from) = c THEN from
    ELSE IndexOfChar(s, c, from + 1)

\* s.split(sep) for a one-character separator: "" splits into <<"">>
RECURSIVE Split(_, _)
Split(s, sep) ==
    LET i == IndexOfChar(s, sep, 1)
    IN  IF i = 0 THEN <<s>>
        ELSE <<SubSeq(s, 1, i - 1)>> \o Split(SubSeq(s, i + 1, Len(s)), sep)

\* parts.join(sep)
RECURSIVE Join(_, _)
Join(parts, sep) ==
    IF Len(parts) = 0 THEN ""
    ELSE IF Len(parts) = 1 THEN parts[1]
    ELSE parts[1] \o sep \o Join(Tail(parts), sep)

\* text.replace(/ /g, '%s')
RECURSIVE EscapeSpaces(_)
EscapeSpaces(s) ==
    IF Len(s) = 0 THEN ""
    ELSE (IF Ch(s, 1) = " " THEN "%s" ELSE Ch(s, 1))
         \o EscapeSpaces(SubSeq(s, 2, Len(s)))

\* primary.replace(/^adb\s+/, ''): "adb" and the whole run of whitespace after it
StripAdbPrefix(s) ==
    IF StartsWith(s, "adb") /\ Len(s) >= 4 /\ IsWhitespace(Ch(s, 4))
    THEN TrimStart(SubSeq(s, 4, Len(s)))
    ELSE s

\* the length of the run of decimal digits that starts at index i
RECURSIVE DigitRun(_, _)
DigitRun(s, i) ==
    IF i <= Len(s) /\ IsDigit(Ch(s, i)) THEN 1 + DigitRun(s, i + 1) ELSE 0

\* the value of a string of decimal digits
RECURSIVE DecimalValue(_)
DecimalValue(s) ==
    IF Len(s) = 0 THEN 0
    ELSE 10 * DecimalValue(SubSeq(s, 1, Len(s) - 1)) + DigitValue(Ch(s, Len(s)))

\* a JavaScript number: an integer or NaN
Num(v) == [nan |-> FALSE, v |-> v]
NaN == [nan |-> TRUE, v |-> 0]

\* parseInt(s, 10): leading whitespace, an optional sign, then the longest run
\* of digits; NaN when there is no digit
ParseInt(str) ==
    LET s    == TrimStart(str)
        sign == IF Len(s) > 0 /\ Ch(s, 1) \in {"+", "-"} THEN Ch(s, 1) ELSE ""
        from == Len(sign) + 1
        n    == DigitRun(s, from)
        mag  == DecimalValue(SubSeq(s, from, from + n - 1))
    IN  IF n = 0 THEN NaN
        ELSE Num(IF sign = "-" THEN 0 - mag ELSE mag)

\* a * k in JavaScript arithmetic: NaN is absorbing
Times(a, k) == IF a.nan THEN NaN ELSE Num(a.v * k)

\* String(n) for an integer
RECURSIVE NatToString(_)
NatToString(n) ==
    IF n < 10 THEN Ch(DigitChars, n + 1)
    ELSE NatToString(n \div 10) \o Ch(DigitChars, (n % 10) + 1)

IntToString(n) == IF n < 0 THEN "-" \o NatToString(0 - n) ELSE NatToString(n)

(***************************************************************************)
(* The parsed layout document.  xml2js (default options) yields plain      *)
(* JavaScript values: an object has an optional attribute map `$` and      *)
(* keyed fields, and the children of an element are an array under the key *)
(* of their tag.  A value is a record                                      *)
(*   [type, hasAttrs, attrs, fields]   type \in {"object", "array"}            *)
(* where fields is the sequence of [key, val] in enumeration order (the    *)
(* items of an array under their indices).  An absent attribute is "".     *)
(***************************************************************************)
NoAttrs == [bounds |-> "", text |-> "", resourceId |-> "", class |-> ""]

JsArray(items) ==
    [type |-> "array", hasAttrs |-> FALSE, attrs |-> NoAttrs,
     fields |-> [i \in 1..Len(items) |-> [key |-> IntToString(i - 1), val |-> items[i]]]]

\* an element <node .../> with its attributes and its child elements
XmlNode(attrs, children) ==
    [type |-> "object", hasAttrs |-> TRUE, attrs |-> attrs,
     fields |-> IF Len(children) = 0 THEN <<>>
                ELSE <<[key |-> "node", val |-> JsArray(children)]>>]

\* the <hierarchy> element: an attribute map without bounds, and its nodes
XmlHierarchy(children) ==
    XmlNode(NoAttrs, children)

HasField(obj, key) == \E i \in 1..Len(obj.fields) : obj.fields[i].key = key

Field(obj, key) ==
    obj.fields[CHOOSE i \in 1..Len(obj.fields) : obj.fields[i].key = key].val

\* the result of parser.parseStringPromise: null, or the root object
NullTree == [isNull |-> TRUE, hasHierarchy |-> FALSE, hierarchy |-> JsArray(<<>>)]
Tree(children) ==
    [isNull |-> FALSE, hasHierarchy |-> TRUE, hierarchy |-> XmlHierarchy(children)]

\* bounds.match(/(\d+),(\d+)(\d+),(\d+)/) tried at start index i: the first
\* group is the digit run at i, the second and third share the next run (the
\* third, being last, keeps one digit), the fourth is the run after the comma
BoundsMatchAt(s, i) ==
    LET r1 == DigitRun(s, i)
        j  == i + r1 + 1
        r2 == DigitRun(s, j)
        k  == j + r2 + 1
        r3 == DigitRun(s, k)
    IN  /\ r1 >= 1
        /\ i + r1 <= Len(s) /\ Ch(s, i + r1) = ","
        /\ r2 >= 2
        /\ j + r2 <= Len(s) /\ Ch(s, j + r2) = ","
        /\ r3 >= 1

BoundsMatches(s) == \E i \in 1..Len(s) : BoundsMatchAt(s, i)

\* match.map(Number) without the whole match: <<x1, y1, x2, y2>>
BoundsGroups(s) ==
    LET i  == CHOOSE a \in 1..Len(s) :
                  /\ BoundsMatchAt(s, a)
                  /\ \A b \in 1..(a - 1) : ~BoundsMatchAt(s, b)
        r1 == DigitRun(s, i)
        j  == i + r1 + 1
        r2 == DigitRun(s, j)
        k  == j + r2 + 1
        r3 == DigitRun(s, k)
    IN  << DecimalValue(SubSeq(s, i, i + r1 - 1)),
           DecimalValue(SubSeq(s, j, j + r2 - 2)),
           DecimalValue(SubSeq(s, j + r2 - 1, j + r2 - 1)),
           DecimalValue(SubSeq(s, k, k + r3 - 1)) >>

\* the element pushed for a node whose bounds matched
Element(attrs) ==
    LET g == BoundsGroups(attrs.bounds)
    IN  [text |-> attrs.text, resourceId |-> attrs.resourceId, class |-> attrs.class,
         x |-> (g[1] + g[3]) \div 2, y |-> (g[2] + g[4]) \div 2,
         width |-> g[3] - g[1], height |-> g[4] - g[2]]

\* traverse(node): the elements pushed, in the order pushed
RECURSIVE traverse(_), traverseFields(_), traverseEach(_)
traverse(node) ==
    (IF node.hasAttrs /\ BoundsMatches(node.attrs.bounds) THEN <<Element(node.attrs)>> ELSE <<>>)
    \o traverseFields(node.fields)
traverseFields(fs) ==
    IF Len(fs) = 0 THEN <<>>
    ELSE (IF Head(fs).val.type = "array" THEN traverseEach(Head(fs).val.fields) ELSE <<>>)
         \o traverseFields(Tail(fs))
traverseEach(items) ==
    IF Len(items) = 0 THEN <<>>
    ELSE traverse(Head(items).val) \o traverseEach(Tail(items))

extractUiElements(uiTree) ==
    IF ~uiTree.isNull /\ uiTree.hasHierarchy /\ HasField(uiTree.hierarchy, "node")
    THEN traverse(Field(uiTree.hierarchy, "node"))
    ELSE <<>>

\* `${e.text || e.resourceId || e.class} [${e.x},${e.y}]`
ElementLabel(e) ==
    (IF e.text # "" THEN e.text ELSE IF e.resourceId # "" THEN e.resourceId ELSE e.class)
    \o " [" \o IntToString(e.x) \o "," \o IntToString(e.y) \o "]"

\* getContext once getUiTree has returned uiTree
ContextOf(uiTree) ==
    IF uiTree.isNull THEN "Unknown"
    ELSE LET elements == extractUiElements(uiTree)
         IN  Join([i \in 1..Len(elements) |-> ElementLabel(elements[i])], ", ")

(***************************************************************************)
(* The reply parser of runAgent (lines 192-208) and the per-step           *)
(* normalisation and validation (lines 211-230).                           *)
(*                                                                         *)
(* A step is [primary, hasSleep, sleep, line]: `sleep` is the property     *)
(* step.sleep when hasSleep, and undefined otherwise; `line` is the index  *)
(* of the reply line that opened the step (bookkeeping, not in the source).*)
(***************************************************************************)
NoStep == [open |-> FALSE, step |-> [primary |-> "", hasSleep |-> FALSE, sleep |-> NaN, line |-> 0]]

\* currentStep = { primary: trimmed.slice('Command:'.length).trim() }
OpenStep(trimmed, lineNo) ==
    [open |-> TRUE,
     step |-> [primary |-> Trim(Slice(trimmed, Len("Command:"))),
               hasSleep |-> FALSE, sleep |-> NaN, line |-> lineNo]]

\* seconds taken for hundredths of a second
SleepValueTimes100(trimmed) == Times(ParseInt(Trim(Slice(trimmed, Len("Sleep:")))), 100)

\* parseInt(trimmed.slice('Sleep:'.length).trim(), 10) * 1000
SleepValue(trimmed) == Times(ParseInt(Trim(Slice(trimmed, Len("Sleep:")))), 1000)

\* steps.unshift(currentStep)
PushStepInFront(steps, step) == <<step>> \o steps

\* steps.push(currentStep)
PushStep(steps, step) == Append(steps, step)

\* a parser in which a DONE line closes the step that is open
ParseLineDoneCloses(st, line, lineNo) ==
    LET trimmed == Trim(line)
    IN  IF ToUpperCase(trimmed) = "DONE"
        THEN [steps   |-> IF st.current.open THEN PushStep(st.steps, st.current.step)
                          ELSE st.steps,
              current |-> NoStep]
        ELSE IF StartsWith(trimmed, "Command:")
        THEN [steps   |-> IF st.current.open THEN PushStep(st.steps, st.current.step)
                          ELSE st.steps,
              current |-> OpenStep(trimmed, lineNo)]
        ELSE IF StartsWith(trimmed, "Sleep:")
        THEN IF st.current.open
             THEN [st EXCEPT !.current.step.hasSleep = TRUE,
                             !.current.step.sleep = SleepValue(trimmed)]
             ELSE st
        ELSE st

\* one iteration of `for (let line of lines)` on the state [steps, current]
ParseLine(st, line, lineNo) ==
    LET trimmed == Trim(line)
    IN  IF ToUpperCase(trimmed) = "DONE" THEN st
        ELSE IF StartsWith(trimmed, "Command:")
        THEN [steps   |-> IF st.current.open THEN PushStep(st.steps, st.current.step)
                          ELSE st.steps,
              current |-> OpenStep(trimmed, lineNo)]
        ELSE IF StartsWith(trimmed, "Sleep:")
        THEN IF st.current.open
             THEN [st EXCEPT !.current.step.hasSleep = TRUE,
                             !.current.step.sleep = SleepValue(trimmed)]
             ELSE st
        ELSE st

RECURSIVE ParseLines(_, _, _)
ParseLines(st, lines, lineNo) ==
    IF lineNo > Len(lines) THEN st
    ELSE ParseLines(ParseLine(st, lines[lineNo], lineNo), lines, lineNo + 1)

\* lines 192-208: the steps of a reply, in the order pushed
ParseReply(aiOutput) ==
    LET st == ParseLines([steps |-> <<>>, current |-> NoStep], Split(aiOutput, "\n"), 1)
    IN  IF st.current.open THEN PushStep(st.steps, st.current.step) ELSE st.steps

\* a terminal check that forgets toUpperCase
IsDoneCaseSensitive(aiOutput) == aiOutput = "DONE"

\* line 187: the whole reply is the terminal keyword
IsDone(aiOutput) == ToUpperCase(aiOutput) = "DONE"

\* an escaping that replaces the first space of the payload only
EscapeTextCommandFirstSpace(primary) ==
    IF StartsWith(primary, "shell input text")
    THEN LET parts == Split(primary, " ")
             textArg == Join(SubSeq(parts, 4, Len(parts)), " ")
             i == IndexOfChar(textArg, " ", 1)
         IN  IF Len(parts) >= 4
             THEN "shell input text "
                  \o (IF i = 0 THEN textArg
                      ELSE SubSeq(textArg, 1, i - 1) \o "%s"
                           \o SubSeq(textArg, i + 1, Len(textArg)))
             ELSE primary
    ELSE primary

\* lines 214-221: the text payload of `shell input text` with its spaces escaped
EscapeTextCommand(primary) ==
    IF StartsWith(primary, "shell input text")
    THEN LET parts == Split(primary, " ")
         IN  IF Len(parts) >= 4
             THEN "shell input text "
                  \o EscapeSpaces(Join(SubSeq(parts, 4, Len(parts)), " "))
             ELSE primary
    ELSE primary

\* lines 212-221: step.primary as it stands when the tap check reads it
NormalizePrimary(primary) == EscapeTextCommand(StripAdbPrefix(primary))

\* lines 223-230: the tap check that skips the step
TapRejected(primary) ==
    StartsWith(primary, "shell input tap") /\ Len(Split(primary, " ")) < 4

\* `if (step.sleep)`: undefined, NaN and 0 are falsy
SleepRequested(step) == step.hasSleep /\ ~step.sleep.nan /\ step.sleep.v # 0

(***************************************************************************)
(* The one-shot queries of start-up.                                       *)
(***************************************************************************)
\* the index of the first occurrence of pat in s, or 0
RECURSIVE IndexOf(_, _, _)
IndexOf(s, pat, from) ==
    IF from + Len(pat) - 1 > Len(s) THEN 0
    ELSE IF SubSeq(s, from, from + Len(pat) - 1) = pat THEN from
    ELSE IndexOf(s, pat, from + 1)

\* s.replace(pat, '') for a string pattern: the first occurrence only
RemoveFirst(s, pat) ==
    LET i == IndexOf(s, pat, 1)
    IN  IF i = 0 THEN s
        ELSE SubSeq(s, 1, i - 1) \o SubSeq(s, i + Len(pat), Len(s))

RECURSIVE FilterNonEmpty(_)
FilterNonEmpty(parts) ==
    IF Len(parts) = 0 THEN <<>>
    ELSE (IF Head(parts) # "" THEN <<Head(parts)>> ELSE <<>>)
         \o FilterNonEmpty(Tail(parts))

\* getAllPackages on the trimmed stdout of `pm list packages`
PackageList(stdout) ==
    LET lines == Split(stdout, "\n")
    IN  Join(FilterNonEmpty([i \in 1..Len(lines) |->
                                Trim(RemoveFirst(lines[i], "package:"))]), ", ")

\* checkAdbConnection on the trimmed stdout of `adb devices`
DeviceFound(stdout) ==
    LET lines == Split(stdout, "\n")
    IN  \E i \in 1..Len(lines) : EndsWith(Trim(lines[i]), "device")

\* the system message runAgent starts the conversation with (lines 139-152).
\* Of its fixed instructions, which no operation reads, the first sentence and
\* the package list are kept.
SystemPrompt(packages) ==
    "You are an autonomous Android control agent via ADB in Termux. "
    \o "Available packages: " \o packages \o ". "

Message(role, content) == [role |-> role, content |-> content]

(***************************************************************************)
(* The environment: what the device, the planner and the user may answer.  *)
(***************************************************************************)
\* stdout of `adb shell pm list packages`
PackageOutputs == {"package:com.android.settings\npackage:com.whatsapp"}

\* stdout of `adb devices`
DevicesOutputs ==
    {"List of devices attached\nemulator-5554\tdevice", "List of devices attached"}

\* what the user types at the prompt
Goals == {"open settings ", "  "}

\* layout documents as xml2js parses them (an empty document parses to null:
\* the outcome "emptyDocument" below)
Attrs(bounds, text, resourceId, class) ==
    [bounds |-> bounds, text |-> text, resourceId |-> resourceId, class |-> class]

Layouts ==
    { Tree(<< XmlNode(Attrs("[0,0][1080,200]", "Settings", "", "android.widget.TextView"),
                      << XmlNode(Attrs("[10,20][110,220]", "", "id/ok", "android.widget.Button"),
                                 <<>>) >>) >>),
      Tree(<<>>) }

\* how one call of getUiTree can go
FetchOutcomes ==
    {"dumpFailed", "pullFailed", "fileMissing", "unparsable", "emptyDocument", "parsed"}

\* the outcomes in which an exception is thrown inside getUiTree
FetchFailures == {"dumpFailed", "pullFailed", "fileMissing", "unparsable"}

\* message.content of the planner's completion
Replies ==
    { "DONE",
      " done\n",
      "Command: shell input tap 100 200\nSleep: 2",
      "Command: shell input tap 100\nDONE",
      "Command: adb shell input tap\nCommand: shell input keyevent 3",
      "Sleep: 3\nCommand: shell input text hello big world\nSleep: x",
      "I will tap the button.",
      "Command:\nSleep: 1\nCommand: ",
      "Sleep: 5\nCommand:\nSleep: 0\nCommand: shell input tap\nSleep: 1",
      "Command: shell input swipe 1 2 3 4 5\ndone\nSleep: -1\nCommand: adb shell input tap 7" }

(***************************************************************************)
(* The state of one run of runAgent.                                       *)
(***************************************************************************)
VARIABLES
    pc,            \* the await point runAgent is suspended at
    exit,          \* how the run left the loop: "none" while it has not
    conversation,  \* the array `conversation`
    aiOutput,      \* the trimmed reply of the current turn
    steps,         \* the array `steps` of the current turn
    idx,           \* the position of `for (let step of steps)`, from 1
    adbLog,        \* every command handed to executeAdbCommand, in order
    plannerCalls,  \* calls of groq.chat.completions.create so far
    uiXml,         \* whether the file ./ui.xml exists
    created,       \* whether this run has written ./ui.xml
    lastFetch,     \* how the latest getUiTree went
    nullFetches,   \* calls of getUiTree that returned null so far
    lastStep,      \* what the loop did with the latest step of this turn
    waits,         \* the timeouts awaited since the latest step command
    arg,           \* the argument of a function of the file called on its own
    returned       \* what that call returned: "none" before it returns

\* the state of a function called on its own, outside a run of runAgent
callVars == <<arg, returned>>

vars == <<pc, exit, conversation, aiOutput, steps, idx, adbLog, plannerCalls,
          uiXml, created, lastFetch, nullFetches, lastStep, waits, arg, returned>>

\* the fixed delay of line 248, in ms
SettleDelay == 1500

AdbCall(cmd, kind, result, line) ==
    [cmd |-> cmd, kind |-> kind, result |-> result, turn |-> plannerCalls, line |-> line]

NoStepYet == [line |-> 0, outcome |-> "none"]

\* a getUiTree whose try block does not cover the pull
getUiTreePullOutsideTry(outcome, layout, fileBefore) ==
    [raised   |-> outcome = "pullFailed",
     tree     |-> IF outcome = "parsed" THEN layout ELSE NullTree,
     commands |-> IF outcome = "dumpFailed"
                  THEN <<AdbCall("shell uiautomator dump /sdcard/ui.xml", "fetch", "failed", 0)>>
                  ELSE <<AdbCall("shell uiautomator dump /sdcard/ui.xml", "fetch", "ok", 0),
                         AdbCall("pull /sdcard/ui.xml ./ui.xml", "fetch",
                                 IF outcome = "pullFailed" THEN "failed" ELSE "ok", 0)>>,
     file     |-> CASE outcome \in {"dumpFailed", "pullFailed"} -> fileBefore
                    [] outcome = "fileMissing" -> FALSE
                    [] OTHER -> TRUE,
     wrote    |-> outcome \in {"unparsable", "emptyDocument", "parsed"}]

\* getUiTree (lines 84-98) for one way the device and the file system answer:
\* the tree returned (null on every failure), whether an exception leaves the
\* function, the adb commands issued and what becomes of ./ui.xml
getUiTree(outcome, layout, fileBefore) ==
    [raised   |-> FALSE,
     tree     |-> IF outcome = "parsed" THEN layout ELSE NullTree,
     commands |-> IF outcome = "dumpFailed"
                  THEN <<AdbCall("shell uiautomator dump /sdcard/ui.xml", "fetch", "failed", 0)>>
                  ELSE <<AdbCall("shell uiautomator dump /sdcard/ui.xml", "fetch", "ok", 0),
                         AdbCall("pull /sdcard/ui.xml ./ui.xml", "fetch",
                                 IF outcome = "pullFailed" THEN "failed" ELSE "ok", 0)>>,
     file     |-> CASE outcome \in {"dumpFailed", "pullFailed"} -> fileBefore
                    [] outcome = "fileMissing" -> FALSE
                    [] OTHER -> TRUE,
     wrote    |-> outcome \in {"unparsable", "emptyDocument", "parsed"}]

\* getContext (lines 130-135) on the result of getUiTree
getContext(fetch) == ContextOf(fetch.tree)

\* an observation that is computed and then dropped
PushContextDropped(conv, context) == conv

\* an observation that overwrites the newest message instead of following it
PushContextOverwriting(conv, context) ==
    [conv EXCEPT ![Len(conv)] = Message("system", "UI Context: " \o context)]

\* conversation.push({ role: 'system', content: 'UI Context: ' + context })
PushContext(conv, context) == Append(conv, Message("system", "UI Context: " \o context))

\* the catch and finally of runAgent are entered: the run awaits its last toast
Leave(how) ==
    /\ pc' = "exiting"
    /\ exit' = how

Init ==
    /\ pc = "packages"
    /\ exit = "none"
    /\ conversation = <<>>
    /\ aiOutput = ""
    /\ steps = <<>>
    /\ idx = 1
    /\ adbLog = <<>>
    /\ plannerCalls = 0
    /\ uiXml \in BOOLEAN       \* a file left behind by a run that was killed
    /\ created = FALSE
    /\ lastFetch = "none"
    /\ nullFetches = 0
    /\ lastStep = NoStepYet
    /\ waits = <<>>
    /\ arg = "none"
    /\ returned = "none"

\* lines 138-152: getAllPackages, outside the try: a failure rejects runAgent
GetAllPackages ==
    /\ pc = "packages"
    /\ \E ok \in BOOLEAN :
         IF ok
         THEN \E stdout \in PackageOutputs :
                /\ adbLog' = Append(adbLog, AdbCall("shell pm list packages", "setup", "ok", 0))
                /\ conversation' = <<Message("system", SystemPrompt(PackageList(Trim(stdout))))>>
                /\ pc' = "connect"
                /\ exit' = exit
         ELSE /\ adbLog' = Append(adbLog, AdbCall("shell pm list packages", "setup", "failed", 0))
              /\ pc' = "finished"
              /\ exit' = "Rejected"
              /\ UNCHANGED conversation
    /\ UNCHANGED <<aiOutput, steps, idx, plannerCalls, uiXml, created, lastFetch,
                   nullFetches, lastStep, waits>>
    /\ UNCHANGED callVars

\* lines 154-156: the start toast and checkAdbConnection
CheckAdbConnection ==
    /\ pc = "connect"
    /\ \E ok \in BOOLEAN :
         IF ok
         THEN \E stdout \in DevicesOutputs :
                /\ adbLog' = Append(adbLog, AdbCall("devices", "setup", "ok", 0))
                /\ IF DeviceFound(Trim(stdout))
                   THEN pc' = "goal" /\ exit' = exit
                   ELSE Leave("Exception")
         ELSE /\ adbLog' = Append(adbLog, AdbCall("devices", "setup", "failed", 0))
              /\ Leave("Exception")
    /\ UNCHANGED <<conversation, aiOutput, steps, idx, plannerCalls, uiXml, created,
                   lastFetch, nullFetches, lastStep, waits>>
    /\ UNCHANGED callVars

\* lines 157-161: askGoal; an empty goal returns after a toast
AskGoal ==
    /\ pc = "goal"
    /\ \E answer \in Goals :
         LET userCommand == Trim(answer)
         IN  IF userCommand = ""
             THEN Leave("NoGoal") /\ UNCHANGED conversation
             ELSE /\ conversation' = Append(conversation, Message("user", userCommand))
                  /\ pc' = "observe"
                  /\ exit' = exit
    /\ UNCHANGED <<aiOutput, steps, idx, adbLog, plannerCalls, uiXml, created,
                   lastFetch, nullFetches, lastStep, waits>>
    /\ UNCHANGED callVars

\* an observation: getContext and the push that follows it (171-172, 253-254)
TakeObservation(outcome, layout, next) ==
    LET fetch == getUiTree(outcome, layout, uiXml)
    IN  /\ outcome # "parsed" => nullFetches < MaxNullFetches
        /\ adbLog' = adbLog \o fetch.commands
        /\ uiXml' = fetch.file
        /\ created' = (created \/ fetch.wrote)
        /\ lastFetch' = outcome
        /\ nullFetches' = IF fetch.tree.isNull THEN nullFetches + 1 ELSE nullFetches
        /\ IF fetch.raised
           THEN Leave("Exception") /\ UNCHANGED conversation
           ELSE /\ conversation' = PushContext(conversation, getContext(fetch))
                /\ pc' = next
                /\ exit' = exit

\* lines 171-172: the observation that opens a planning turn
Observe ==
    /\ pc = "observe"
    /\ plannerCalls < MaxTurns
    /\ \E outcome \in FetchOutcomes, layout \in Layouts :
         TakeObservation(outcome, layout, "plan")
    /\ UNCHANGED <<aiOutput, steps, idx, plannerCalls, lastStep, waits>>
    /\ UNCHANGED callVars

\* lines 174-208: the planner answers; the reply is pushed, then either it is
\* the terminal keyword or it is parsed into the steps of this turn
PlannerReplies ==
    /\ pc = "plan"
    /\ plannerCalls < MaxTurns
    /\ plannerCalls' = plannerCalls + 1
    /\ \E content \in Replies :
         LET reply == Trim(content)
         IN  /\ aiOutput' = reply
             /\ conversation' = Append(conversation, Message("assistant", reply))
             /\ IF IsDone(reply)
                THEN Leave("Terminated") /\ steps' = <<>>
                ELSE /\ steps' = ParseReply(reply)
                     /\ pc' = "step"
                     /\ exit' = exit
    /\ idx' = 1
    /\ lastStep' = NoStepYet
    /\ UNCHANGED <<adbLog, uiXml, created, lastFetch, nullFetches, waits>>
    /\ UNCHANGED callVars

\* line 174 throws (the request fails, or the completion has no text)
PlannerFails ==
    /\ pc = "plan"
    /\ plannerCalls < MaxTurns
    /\ plannerCalls' = plannerCalls + 1
    /\ Leave("Exception")
    /\ UNCHANGED <<conversation, aiOutput, steps, idx, adbLog, uiXml, created,
                   lastFetch, nullFetches, lastStep, waits>>
    /\ UNCHANGED callVars

\* a loop that asks the planner again without observing first
PlanExhaustedSkippingObservation ==
    /\ pc = "step"
    /\ idx > Len(steps)
    /\ pc' = "plan"
    /\ UNCHANGED <<exit, conversation, aiOutput, steps, idx, adbLog, plannerCalls,
                   uiXml, created, lastFetch, nullFetches, lastStep, waits>>
    /\ UNCHANGED callVars

\* line 210 with no step left: back to the top of `while (true)`
PlanExhausted ==
    /\ pc = "step"
    /\ idx > Len(steps)
    /\ pc' = "observe"
    /\ UNCHANGED <<exit, conversation, aiOutput, steps, idx, adbLog, plannerCalls,
                   uiXml, created, lastFetch, nullFetches, lastStep, waits>>
    /\ UNCHANGED callVars

\* a loop that hands an empty command to the transport
StepVerdictSendingEmpty(primary) ==
    IF primary # "" /\ TapRejected(NormalizePrimary(primary)) THEN "continue"
    ELSE "execute"

\* a tap without coordinates treated like a failed command
StepVerdictReturning(primary) ==
    IF primary = "" THEN "continue"
    ELSE IF TapRejected(NormalizePrimary(primary)) THEN "return"
    ELSE "execute"

\* lines 211-230: what the loop does with a step before any command is sent:
\* "continue" (line 211 or line 228) or "execute" (line 232 is reached)
StepVerdict(primary) ==
    IF primary = "" THEN "continue"
    ELSE IF TapRejected(NormalizePrimary(primary)) THEN "continue"
    ELSE "execute"

\* lines 211-236: the next step is skipped (empty, or a tap without
\* coordinates) or its command is handed to the transport
StartStep ==
    /\ pc = "step"
    /\ idx <= Len(steps)
    /\ LET step    == steps[idx]
           primary == NormalizePrimary(step.primary)
           verdict == StepVerdict(step.primary)
           skipped == IF step.primary = "" THEN "empty"
                      ELSE IF TapRejected(primary) THEN "rejected"
                      ELSE "none"
       IN  /\ steps' = IF step.primary = "" THEN steps
                       ELSE [steps EXCEPT ![idx].primary = primary]
           /\ CASE verdict = "continue" ->
                     /\ idx' = idx + 1
                     /\ lastStep' = [line |-> step.line, outcome |-> skipped]
                     /\ UNCHANGED <<pc, exit, adbLog, waits>>
                [] verdict = "execute" ->
                     /\ adbLog' = Append(adbLog, AdbCall(primary, "step", "pending", step.line))
                     /\ lastStep' = [line |-> step.line, outcome |-> "pending"]
                     /\ waits' = <<>>
                     /\ pc' = "transport"
                     /\ UNCHANGED <<exit, idx>>
                [] OTHER ->
                     /\ Leave("StepFailed")
                     /\ lastStep' = [line |-> step.line, outcome |-> skipped]
                     /\ UNCHANGED <<idx, adbLog, waits>>
    /\ UNCHANGED <<conversation, aiOutput, plannerCalls, uiXml, created, lastFetch,
                   nullFetches>>
    /\ UNCHANGED callVars

\* a loop that carries on after a failed command
AfterTransportCarryOn(success) == "settle"

\* where line 241-246 goes once executeAdbCommand has settled
AfterTransport(success) == IF success THEN "settle" ELSE "return"

\* lines 236-246: the transport call of the step settles
TransportSettles ==
    /\ pc = "transport"
    /\ \E success \in BOOLEAN :
         /\ adbLog' = [adbLog EXCEPT ![Len(adbLog)].result =
                          IF success THEN "ok" ELSE "failed"]
         /\ lastStep' = [lastStep EXCEPT !.outcome =
                          IF success THEN "success" ELSE "failure"]
         /\ IF AfterTransport(success) = "return"
            THEN Leave("StepFailed")
            ELSE pc' = AfterTransport(success) /\ exit' = exit
    /\ UNCHANGED <<conversation, aiOutput, steps, idx, plannerCalls, uiXml, created,
                   lastFetch, nullFetches, waits>>
    /\ UNCHANGED callVars

\* line 248: the fixed delay
Settle ==
    /\ pc = "settle"
    /\ waits' = Append(waits, SettleDelay)
    /\ pc' = IF SleepRequested(steps[idx]) THEN "sleep" ELSE "reobserve"
    /\ UNCHANGED <<exit, conversation, aiOutput, steps, idx, adbLog, plannerCalls,
                   uiXml, created, lastFetch, nullFetches, lastStep>>
    /\ UNCHANGED callVars

\* lines 249-252: the delay the step asked for
Sleep ==
    /\ pc = "sleep"
    /\ waits' = Append(waits, steps[idx].sleep.v)
    /\ pc' = "reobserve"
    /\ UNCHANGED <<exit, conversation, aiOutput, steps, idx, adbLog, plannerCalls,
                   uiXml, created, lastFetch, nullFetches, lastStep>>
    /\ UNCHANGED callVars

\* lines 253-254: the observation after a step that succeeded
Reobserve ==
    /\ pc = "reobserve"
    /\ \E outcome \in FetchOutcomes, layout \in Layouts :
         TakeObservation(outcome, layout, "step")
    /\ idx' = idx + 1
    /\ UNCHANGED <<aiOutput, steps, plannerCalls, lastStep, waits>>
    /\ UNCHANGED callVars

\* a clean-up placed after the loop instead of in finally
UnlinksAfterLoopOnly(how) == how = "Terminated"

\* whether line 261 removes the file on this way out of the try
Unlinks(how) == TRUE

\* lines 257-262: the last toast has been shown; finally removes ./ui.xml
Finally ==
    /\ pc = "exiting"
    /\ uiXml' = IF Unlinks(exit) THEN FALSE ELSE uiXml
    /\ pc' = "finished"
    /\ UNCHANGED <<exit, conversation, aiOutput, steps, idx, adbLog, plannerCalls,
                   created, lastFetch, nullFetches, lastStep, waits>>
    /\ UNCHANGED callVars

Next ==
    \/ GetAllPackages
    \/ CheckAdbConnection
    \/ AskGoal
    \/ Observe
    \/ PlannerReplies
    \/ PlannerFails
    \/ PlanExhausted
    \/ StartStep
    \/ TransportSettles
    \/ Settle
    \/ Sleep
    \/ Reobserve
    \/ Finally

Spec == Init /\ [][Next]_vars

(***************************************************************************)
(* Vocabulary of the properties.                                           *)
(***************************************************************************)
\* the loop states of the specification, read off pc and exit
Terminated == exit = "Terminated"
Aborted == exit \in {"StepFailed", "Exception"}
Left == pc \in {"exiting", "finished"}

\* the indices of adbLog that are commands of steps
StepCalls == {i \in 1..Len(adbLog) : adbLog[i].kind = "step"}

\* the step commands of the current turn
TurnCalls == {i \in StepCalls : adbLog[i].turn = plannerCalls}

\* every spelling of the terminal keyword
DoneSpellings ==
    {a \o b \o c \o d : a \in {"D", "d"}, b \in {"O", "o"}, c \in {"N", "n"}, d \in {"E", "e"}}

\* the arguments that follow `shell input tap`
TapArguments(cmd) == FilterNonEmpty(Split(Slice(cmd, Len("shell input tap")), " "))

IsPrefix(a, b) == Len(a) <= Len(b) /\ SubSeq(b, 1, Len(a)) = a

(***************************************************************************)
(* C1.  A step whose device command fails aborts the run: the failed       *)
(* command is the last thing ever handed to the transport (it is not sent  *)
(* again and no later step of the plan is sent), the loop has left with    *)
(* the failure, and from then on neither the transport nor the planner is  *)
(* called.                                                                 *)
(***************************************************************************)
C1_FailedStepAborts ==
    /\ [](\A i \in StepCalls :
             adbLog[i].result = "failed" =>
                 /\ i = Len(adbLog)
                 /\ exit = "StepFailed"
                 /\ Left)
    /\ [][exit = "StepFailed" =>
             /\ adbLog' = adbLog
             /\ plannerCalls' = plannerCalls
             /\ conversation' = conversation
             /\ exit' = exit]_vars

\* the first of two steps failed, and the run is over
C1_Witness ==
    /\ pc = "finished"
    /\ exit = "StepFailed"
    /\ idx < Len(steps)
    /\ adbLog[Len(adbLog)].result = "failed"

(***************************************************************************)
(* C2.  No tap command with fewer than two arguments after                 *)
(* `shell input tap` is ever handed to the transport.                      *)
(***************************************************************************)
C2_TapNeedsTwoArguments ==
    \A i \in StepCalls :
        StartsWith(adbLog[i].cmd, "shell input tap") =>
            Len(TapArguments(adbLog[i].cmd)) >= 2

(***************************************************************************)
(* C3.  When the trimmed reply is the terminal keyword in any letter case, *)
(* the loop has left as Terminated with no steps: no step of that turn is  *)
(* ever started and no step command is sent for it.                        *)
(***************************************************************************)
C3_DoneTerminates ==
    aiOutput \in DoneSpellings =>
        /\ Terminated
        /\ Left
        /\ steps = <<>>
        /\ TurnCalls = {}

\* a lower-case reply with whitespace around it ended the run
C3_Witness ==
    /\ pc = "finished"
    /\ Terminated
    /\ aiOutput = "done"
    /\ conversation[Len(conversation)] = Message("assistant", "done")

(***************************************************************************)
(* More vocabulary: the messages and fetches of the current turn.          *)
(***************************************************************************)
IsObservation(m) == m.role = "system" /\ StartsWith(m.content, "UI Context: ")

\* the index of the newest assistant message, or 0
LastReplyAt ==
    IF \E i \in 1..Len(conversation) : conversation[i].role = "assistant"
    THEN CHOOSE i \in 1..Len(conversation) :
             /\ conversation[i].role = "assistant"
             /\ \A j \in (i + 1)..Len(conversation) : conversation[j].role # "assistant"
    ELSE 0

\* the messages appended since the newest reply
SinceReply == SubSeq(conversation, LastReplyAt + 1, Len(conversation))

\* layout dumps asked of the device since the newest reply
DumpsSinceReply ==
    Cardinality({i \in 1..Len(adbLog) :
                    /\ adbLog[i].kind = "fetch"
                    /\ adbLog[i].turn = plannerCalls
                    /\ StartsWith(adbLog[i].cmd, "shell uiautomator dump")})

\* the steps of the current plan that the loop is done with, empty ones aside
StepsBehind ==
    LET last == IF pc = "step" THEN idx - 1 ELSE idx
    IN  Cardinality({i \in 1..Len(steps) : i <= last /\ steps[i].primary # ""})

SucceededThisTurn == Cardinality({i \in TurnCalls : adbLog[i].result = "ok"})

\* the loop stands between two steps, or has left because a step failed
BetweenSteps == pc = "step" \/ (Left /\ exit = "StepFailed")

(***************************************************************************)
(* C4 as claimed.  Whenever the loop stands between two steps, or has left *)
(* because a step failed, one observation has been appended for every step *)
(* it is done with, whether that step succeeded, failed or was rejected.   *)
(***************************************************************************)
C4_ObservationAfterEveryStep ==
    (plannerCalls > 0 /\ BetweenSteps) => Len(SinceReply) = StepsBehind

(***************************************************************************)
(* C4 as amended.  One fresh observation follows every step that was       *)
(* executed successfully, and nothing else is appended meanwhile: between  *)
(* steps the turn holds exactly one UI Context message and one layout dump *)
(* per successful step, and while the delays after a success run the       *)
(* observation for that step is the one still missing.  A failed or        *)
(* rejected step adds none.                                                *)
(***************************************************************************)
C4_ObservationAfterSuccess ==
    (plannerCalls > 0 /\ exit \in {"none", "StepFailed"} /\ pc # "plan") =>
        /\ \A i \in 1..Len(SinceReply) : IsObservation(SinceReply[i])
        /\ Len(SinceReply) = DumpsSinceReply
        /\ (BetweenSteps \/ pc \in {"transport", "observe"}) =>
               Len(SinceReply) = SucceededThisTurn
        /\ pc \in {"settle", "sleep", "reobserve"} =>
               Len(SinceReply) = SucceededThisTurn - 1

\* a plan of a rejected tap and a successful key event is behind the loop
C4_Witness ==
    /\ pc = "step"
    /\ idx = 3
    /\ Len(steps) = 2
    /\ TapRejected(steps[1].primary)
    /\ SucceededThisTurn = 1
    /\ Len(SinceReply) = 1

(***************************************************************************)
(* C5.  The conversation is append-only: every transition leaves the       *)
(* earlier conversation as a prefix of the later one.                      *)
(***************************************************************************)
C5_AppendOnly == [][IsPrefix(conversation, conversation')]_vars

\* a conversation that has grown through two turns
C5_Witness ==
    /\ plannerCalls = 2
    /\ Len(conversation) >= 7
    /\ conversation[Len(conversation)].role = "system"

(***************************************************************************)
(* C6.  The step commands of a turn reach the transport in the order of    *)
(* their `Command:` lines: of two commands of one turn, the earlier in the *)
(* log comes from the earlier line and has settled before the later is     *)
(* issued, and each command of the current turn is the normalised text of  *)
(* the line it is logged for.                                              *)
(***************************************************************************)
C6_CommandsInLineOrder ==
    /\ \A i, j \in StepCalls :
           (i < j /\ adbLog[i].turn = adbLog[j].turn) =>
               /\ adbLog[i].line < adbLog[j].line
               /\ adbLog[i].result = "ok"
    /\ TurnCalls # {} =>
           LET lines == Split(aiOutput, "\n")
           IN  \A i \in TurnCalls :
                   LET text == Trim(lines[adbLog[i].line])
                   IN  /\ adbLog[i].line \in 1..Len(lines)
                       /\ StartsWith(text, "Command:")
                       /\ adbLog[i].cmd = NormalizePrimary(Trim(Slice(text, Len("Command:"))))

\* two commands of one reply have both been sent
C6_Witness ==
    \E i, j \in TurnCalls :
        /\ i < j
        /\ adbLog[i].cmd = "shell input swipe 1 2 3 4 5"
        /\ adbLog[j].cmd = "shell input tap 7"

(***************************************************************************)
(* The lines of a reply, read without the parser.                          *)
(***************************************************************************)
\* the trimmed lines of a text
LinesOf(text) ==
    LET lines == Split(text, "\n")
    IN  [i \in 1..Len(lines) |-> Trim(lines[i])]

\* the replies the planner can give, as runAgent holds them, with their lines
LinesOfReplies == {<<Trim(content), LinesOf(Trim(content))>> : content \in Replies}

\* the trimmed lines of a reply
TrimmedLines(reply) ==
    LET known == {p \in LinesOfReplies : p[1] = reply}
    IN  IF known = {} THEN LinesOf(reply) ELSE (CHOOSE p \in known : TRUE)[2]

IsCommandLine(lines, i) == StartsWith(lines[i], "Command:")

IsSleepLine(lines, i) == StartsWith(lines[i], "Sleep:")

\* the `Sleep:` lines that belong to the step opened at line c: those after c
\* with no `Command:` line in between
SleepLinesOf(lines, c) ==
    {j \in (c + 1)..Len(lines) :
        /\ IsSleepLine(lines, j)
        /\ \A k \in (c + 1)..(j - 1) : ~IsCommandLine(lines, k)}

Greatest(S) == CHOOSE m \in S : \A n \in S : n <= m

(***************************************************************************)
(* C7.  The steps of a turn are the `Command:` lines of its reply, one     *)
(* each and no more, so a `Sleep:` line before the first of them opens and *)
(* changes nothing.  A step's sleep is 1000 times the integer of the last  *)
(* `Sleep:` line that belongs to it; a step with no such line has no sleep *)
(* set, asks for no delay, and the only delay after its command is the     *)
(* settle delay.                                                           *)
(***************************************************************************)
C7_SleepSetsOpenStep ==
    LET lines == TrimmedLines(aiOutput)
    IN  /\ Len(steps) = Cardinality({i \in 1..Len(lines) : IsCommandLine(lines, i)})
        /\ \A k \in 1..Len(steps) :
               LET c     == steps[k].line
                   mine  == SleepLinesOf(lines, c)
                   value == ParseInt(Trim(Slice(lines[Greatest(mine)], Len("Sleep:"))))
               IN  /\ c \in 1..Len(lines)
                   /\ IsCommandLine(lines, c)
                   /\ IF mine = {}
                      THEN /\ ~steps[k].hasSleep
                           /\ ~SleepRequested(steps[k])
                           /\ (k = idx /\ pc = "reobserve") => waits = <<SettleDelay>>
                      ELSE /\ steps[k].hasSleep
                           /\ ~value.nan => steps[k].sleep = Num(1000 * value.v)

\* a reply that opens with a `Sleep:` line and gives its second step one second
C7_Witness ==
    /\ pc = "step"
    /\ StartsWith(aiOutput, "Sleep:")
    /\ Len(steps) = 2
    /\ steps[1].hasSleep /\ steps[1].sleep = Num(0)
    /\ steps[2].hasSleep /\ steps[2].sleep = Num(1000)

(***************************************************************************)
(* C8.  A step rejected for missing coordinates never aborts the run: the  *)
(* transition that rejects it sends nothing, leaves no exit and moves the  *)
(* loop to the next step of the same plan; past the last step the loop     *)
(* goes back to observing for a new planning turn; and a run that left     *)
(* because of a step left because that step's command failed.              *)
(***************************************************************************)
C8_RejectedStepIsSkipped ==
    /\ [][(pc = "step" /\ idx <= Len(steps) /\ steps[idx].primary # ""
             /\ TapRejected(NormalizePrimary(steps[idx].primary))) =>
             /\ pc' = "step"
             /\ idx' = idx + 1
             /\ exit' = "none"
             /\ adbLog' = adbLog
             /\ lastStep'.outcome = "rejected"]_vars
    /\ [][(pc = "step" /\ idx > Len(steps)) => (pc' = "observe" /\ exit' = "none")]_vars
    /\ [](exit = "StepFailed" => lastStep.outcome = "failure")

\* the last step of a plan was rejected and the next turn has begun
C8_Witness ==
    /\ pc = "plan"
    /\ exit = "none"
    /\ lastStep.outcome = "rejected"
    /\ plannerCalls = 1
    /\ TurnCalls = {}

(***************************************************************************)
(* C9.  A failing layout fetch never aborts the loop: the observation that *)
(* meets a failure of the dump, of the pull, a missing file or an          *)
(* unparsable document appends the message `UI Context: Unknown`, leaves   *)
(* no exit and hands on to the planner call or to the next step.           *)
(***************************************************************************)
C9_FetchFailureIsUnknown ==
    [][(pc \in {"observe", "reobserve"} /\ lastFetch' \in FetchFailures) =>
          /\ conversation' = Append(conversation, Message("system", "UI Context: Unknown"))
          /\ exit' = "none"
          /\ pc' = IF pc = "observe" THEN "plan" ELSE "step"]_vars

\* the planner has answered after an observation whose pull failed
C9_Witness ==
    /\ pc = "step"
    /\ lastFetch = "pullFailed"
    /\ Len(conversation) >= 2
    /\ conversation[Len(conversation)].role = "assistant"
    /\ conversation[Len(conversation) - 1] = Message("system", "UI Context: Unknown")

(***************************************************************************)
(* C10.  Once runAgent has finished, a ./ui.xml written by this run is     *)
(* gone, however the run ended.                                            *)
(***************************************************************************)
C10_ArtifactRemoved == (pc = "finished" /\ created) => ~uiXml

\* the run wrote the file, then a step failed, and the run has finished
C10_Witness ==
    /\ pc = "finished"
    /\ created
    /\ exit = "StepFailed"
    /\ lastFetch \in {"parsed", "unparsable"}

(***************************************************************************)
(* More vocabulary: the delay of a step.                                   *)
(***************************************************************************)
\* the delay in ms that a parsed step carries, 0 when it carries none or
\* carries a value that is not a number
SleepMs(step) == IF step.hasSleep /\ ~step.sleep.nan THEN step.sleep.v ELSE 0

\* the step whose command succeeded last, while lastStep says one did
SucceededStep ==
    steps[IF pc \in {"settle", "sleep", "reobserve"} THEN idx ELSE idx - 1]

(***************************************************************************)
(* C11 as claimed.  After the command of a step has succeeded the loop     *)
(* awaits the fixed settle delay, then the delay of the step when that is  *)
(* greater than zero, and then appends exactly one fresh observation, with *)
(* nothing else in between: the delays awaited since the command are the   *)
(* settle delay alone or followed by a positive step delay, the step delay *)
(* is only ever awaited when it is positive, and the observation of the    *)
(* step is missing exactly while the delays run.                           *)
(***************************************************************************)
C11_SettleThenSleepThenObserve ==
    lastStep.outcome = "success" =>
        LET asked == SleepMs(SucceededStep)
            due   == <<SettleDelay>> \o (IF asked > 0 THEN <<asked>> ELSE <<>>)
        IN  /\ pc = "settle" => waits = <<>>
            /\ pc = "sleep" => waits = <<SettleDelay>> /\ asked > 0
            /\ pc \notin {"settle", "sleep"} => waits = due
            /\ pc \in {"settle", "sleep", "reobserve"} =>
                   Len(SinceReply) = SucceededThisTurn - 1
            /\ pc = "step" =>
                   /\ Len(SinceReply) = SucceededThisTurn
                   /\ IsObservation(conversation[Len(conversation)])

(***************************************************************************)
(* The functions of the file called on their own.  runAgent is not         *)
(* running: its variables keep the values below, and `arg` and `returned`  *)
(* hold the argument of the call and the values it returned.               *)
(***************************************************************************)
runVars == <<pc, exit, conversation, aiOutput, steps, idx, adbLog, plannerCalls,
             uiXml, created, lastFetch, nullFetches, lastStep, waits>>

NoRun ==
    /\ pc = "finished"
    /\ exit = "none"
    /\ conversation = <<>>
    /\ aiOutput = ""
    /\ steps = <<>>
    /\ idx = 1
    /\ adbLog = <<>>
    /\ plannerCalls = 0
    /\ uiXml = FALSE
    /\ created = FALSE
    /\ lastFetch = "none"
    /\ nullFetches = 0
    /\ lastStep = NoStepYet
    /\ waits = <<>>

(***************************************************************************)
(* Lines 212-221 applied to a step.primary of the form                     *)
(* `shell input text<rest>`, with or without a leading `adb `, for every   *)
(* <rest> of at most MaxTextLen characters out of TextChars; then applied  *)
(* once more to their own output.                                          *)
(***************************************************************************)
MaxTextLen == 5

TextChars == {" ", "s", "%"}

RECURSIVE StringsOfLength(_, _)
StringsOfLength(chars, n) ==
    IF n = 0 THEN {""}
    ELSE {t \o c : t \in StringsOfLength(chars, n - 1), c \in chars}

\* the strings over chars of at most n characters
StringsUpTo(chars, n) == UNION {StringsOfLength(chars, k) : k \in 0..n}

TextPrimaries(rests) ==
    {head \o rest : head \in {"shell input text", "adb shell input text"},
                    rest \in rests}

InitText ==
    /\ NoRun
    /\ arg \in TextPrimaries(StringsUpTo(TextChars, MaxTextLen))
    /\ returned = <<>>

\* step.primary after lines 212-221
NormalizeText ==
    /\ returned = <<>>
    /\ returned' = <<NormalizePrimary(arg)>>
    /\ UNCHANGED <<arg, runVars>>

\* lines 212-221 on a step.primary that has been through them already
NormalizeTextAgain ==
    /\ Len(returned) = 1
    /\ returned' = Append(returned, NormalizePrimary(returned[1]))
    /\ UNCHANGED <<arg, runVars>>

NextText == NormalizeText \/ NormalizeTextAgain

SpecText == InitText /\ [][NextText]_vars

(***************************************************************************)
(* More vocabulary: the payload of a text action.                          *)
(***************************************************************************)
\* the action without a leading `adb `
WithoutAdb(s) == IF IsPrefix("adb ", s) THEN SubSeq(s, 5, Len(s)) ELSE s

\* the number of spaces among the first n characters of s
SpacesIn(s, n) == Cardinality({i \in 1..n : Ch(s, i) = " "})

\* where the third space of s stands, 0 when s has fewer than three
ThirdSpaceAt(s) ==
    IF SpacesIn(s, Len(s)) < 3 THEN 0
    ELSE CHOOSE p \in 1..Len(s) : Ch(s, p) = " " /\ SpacesIn(s, p) = 3

(***************************************************************************)
(* C12.  Normalising a `shell input text` action replaces every space of   *)
(* its payload (everything after the third space-separated token) by `%s`  *)
(* exactly once: the command that results is `shell input text ` followed  *)
(* by the payload with each space turned into one `%s` and every other     *)
(* character kept in place, so it holds no space; an action without a      *)
(* payload is left as it is; and normalising the result once more changes  *)
(* nothing.                                                                *)
(***************************************************************************)
C12_TextEscapedOnce ==
    Len(returned) >= 1 =>
        LET action  == WithoutAdb(arg)
            p       == ThirdSpaceAt(action)
            payload == SubSeq(action, p + 1, Len(action))
            sent    == returned[1]
            out     == SubSeq(sent, Len("shell input text ") + 1, Len(sent))
        IN  /\ IF p = 0
               THEN sent = action
               ELSE /\ IsPrefix("shell input text ", sent)
                    /\ SpacesIn(out, Len(out)) = 0
                    /\ Len(out) = Len(payload) + SpacesIn(payload, Len(payload))
                    /\ \A i \in 1..Len(payload) :
                           LET o == i + SpacesIn(payload, i - 1)
                           IN  IF Ch(payload, i) = " "
                               THEN SubSeq(out, o, o + 1) = "%s"
                               ELSE Ch(out, o) = Ch(payload, i)
            /\ Len(returned) = 2 => returned[2] = sent

\* a payload of a literal %s between two spaces has been normalised twice
C12_Witness ==
    /\ arg = "adb shell input text  %s "
    /\ returned = <<"shell input text %s%s%s", "shell input text %s%s%s">>

(***************************************************************************)
(* extractUiElements (lines 100-128) called on its own: traverse on one    *)
(* node object, as the forEach of line 121 calls it, for every bounds      *)
(* attribute of BoundsInputs; and extractUiElements on every document of   *)
(* Documents.                                                              *)
(***************************************************************************)
MaxCoord == 10

MaxBoundsLen == 6

MaxChildren == 2

\* the bounds attribute that uiautomator writes for the box b
BoundsText(b) ==
    "[" \o IntToString(b[1]) \o "," \o IntToString(b[2]) \o "]["
        \o IntToString(b[3]) \o "," \o IntToString(b[4]) \o "]"

\* the boxes with coordinates up to n
Boxes(n) == {<<x1, y1, x2, y2>> : x1 \in 0..n, y1 \in 0..n, x2 \in 0..n, y2 \in 0..n}

\* the characters of attribute values that are not two bracketed pairs:
\* they hold no `]`
BoundsChars == {"1", "9", ",", "["}

\* a node object with the bounds attribute s and no child
LeafNode(s) == XmlNode(Attrs(s, "ok", "", "android.view.View"), <<>>)

\* the argument of traverse: the node, and the box its bounds were written
\* from (<<>> when they were not written from a box)
NodeInputs(boxes, others) ==
    {[kind |-> "node", box |-> b, value |-> LeafNode(BoundsText(b))] : b \in boxes}
    \cup {[kind |-> "node", box |-> <<>>, value |-> LeafNode(s)] : s \in others}

SeqsUpTo(S, n) == UNION {[1..k -> S] : k \in 0..n}

\* the attribute maps of the nodes of a document
NodeAttrs ==
    { Attrs("1,23,4", "a", "", "android.widget.Button"),
      Attrs("[0,0][10,20]", "b", "", "android.widget.TextView") }

\* the children of <hierarchy>: up to n nodes, each with up to n leaves
Forests(n) ==
    LET leaves == {XmlNode(a, <<>>) : a \in NodeAttrs}
        nodes  == {XmlNode(a, c) : a \in NodeAttrs, c \in SeqsUpTo(leaves, n)}
    IN  SeqsUpTo(nodes, n)

\* a document whose root element is not <hierarchy>
OtherRoot == [isNull |-> FALSE, hasHierarchy |-> FALSE, hierarchy |-> JsArray(<<>>)]

Documents(forests) == {NullTree, OtherRoot} \cup {Tree(f) : f \in forests}

DocumentInputs(documents) ==
    {[kind |-> "document", box |-> <<>>, value |-> d] : d \in documents}

InitExtract ==
    /\ NoRun
    /\ arg \in NodeInputs(Boxes(MaxCoord), StringsUpTo(BoundsChars, MaxBoundsLen))
                \cup DocumentInputs(Documents(Forests(MaxChildren)))
    /\ returned = <<>>

\* lines 103-123 on one node object
TraverseNode ==
    /\ arg.kind = "node"
    /\ returned = <<>>
    /\ returned' = <<traverse(arg.value)>>
    /\ UNCHANGED <<arg, runVars>>

\* lines 100-128 on what getUiTree returned
ExtractUiElements ==
    /\ arg.kind = "document"
    /\ returned = <<>>
    /\ returned' = <<extractUiElements(arg.value)>>
    /\ UNCHANGED <<arg, runVars>>

NextExtract == TraverseNode \/ ExtractUiElements

SpecExtract == InitExtract /\ [][NextExtract]_vars

(***************************************************************************)
(* C13 as claimed.  For every node whose bounds attribute is well-formed   *)
(* `[x1,y1][x2,y2]` with x2 >= x1 and y2 >= y1 the extractor emits an      *)
(* element with width = x2 - x1, height = y2 - y1 and the centre           *)
(* x = floor((x1 + x2) / 2), y = floor((y1 + y2) / 2).                     *)
(***************************************************************************)
C13_WellFormedBoundsGiveElement ==
    (arg.kind = "node" /\ Len(returned) = 1 /\ Len(arg.box) = 4) =>
        LET x1 == arg.box[1]
            y1 == arg.box[2]
            x2 == arg.box[3]
            y2 == arg.box[4]
        IN  (x2 >= x1 /\ y2 >= y1) =>
                /\ Len(returned[1]) = 1
                /\ returned[1][1].width = x2 - x1
                /\ returned[1][1].height = y2 - y1
                /\ returned[1][1].x = (x1 + x2) \div 2
                /\ returned[1][1].y = (y1 + y2) \div 2

ChildNodes(obj) ==
    IF HasField(obj, "node")
    THEN LET list == Field(obj, "node").fields
         IN  [i \in 1..Len(list) |-> list[i].val]
    ELSE <<>>

\* the attribute maps of the nodes below obj whose bounds parse, in pre-order
RECURSIVE ParsableBelow(_), ParsableOfEach(_)
ParsableBelow(obj) == ParsableOfEach(ChildNodes(obj))
ParsableOfEach(nodes) ==
    IF Len(nodes) = 0 THEN <<>>
    ELSE (IF BoundsMatches(Head(nodes).attrs.bounds) THEN <<Head(nodes).attrs>> ELSE <<>>)
         \o ParsableBelow(Head(nodes))
         \o ParsableOfEach(Tail(nodes))

(***************************************************************************)
(* C17 as claimed.  extractUiElements visits every node reachable from the *)
(* hierarchy root once, in pre-order: the elements it returns are those of *)
(* the reachable nodes whose bounds parse, in document order; for a null   *)
(* tree or a tree without a hierarchy root it returns the empty list.      *)
(***************************************************************************)
C17_EveryNodeInDocumentOrder ==
    (arg.kind = "document" /\ Len(returned) = 1) =>
        LET expected == IF arg.value.isNull \/ ~arg.value.hasHierarchy THEN <<>>
                        ELSE ParsableBelow(arg.value.hierarchy)
        IN  /\ Len(returned[1]) = Len(expected)
            /\ \A i \in 1..Len(expected) :
                   /\ returned[1][i].text = expected[i].text
                   /\ returned[1][i].class = expected[i].class

(***************************************************************************)
(* C15 as claimed.  Every step the reply parser produces carries a delay   *)
(* that is an integer >= 0, for every reply: a step without a Sleep line   *)
(* carries none (a delay of 0), and a step with one carries a number that  *)
(* is not negative, also when the value written on the Sleep line is       *)
(* negative or is not a number.                                            *)
(***************************************************************************)
C15_SleepIsNaturalNumber ==
    \A i \in 1..Len(steps) :
        steps[i].hasSleep => (~steps[i].sleep.nan /\ steps[i].sleep.v >= 0)

(***************************************************************************)
(* More vocabulary: replies without a usable step.                         *)
(***************************************************************************)
\* the replies the planner has given so far
RepliesSoFar ==
    Cardinality({i \in 1..Len(conversation) : conversation[i].role = "assistant"})

\* the step commands sent for the newest reply
CallsOfReply == {i \in StepCalls : adbLog[i].turn = RepliesSoFar}

\* the newest reply is not the terminal keyword and has no `Command:` line
\* with anything after the marker
NoUsableStep ==
    LET lines == TrimmedLines(aiOutput)
    IN  /\ RepliesSoFar > 0
        /\ aiOutput \notin DoneSpellings
        /\ \A i \in 1..Len(lines) :
               IsCommandLine(lines, i) => Trim(Slice(lines[i], Len("Command:"))) = ""

(***************************************************************************)
(* C18.  A reply that is not the terminal keyword and yields no usable     *)
(* step (no `Command:` line, or only empty ones) sends no command and does *)
(* not abort: the loop passes over its steps changing neither the          *)
(* conversation nor the transport log, takes one observation, and stands   *)
(* at the planner call with exactly one new UI Context message after the   *)
(* reply; the next thing it does is call the planner again.  The run       *)
(* leaves after such a reply only when that later planner call fails.      *)
(***************************************************************************)
C18_NoUsableStepReplans ==
    /\ [](NoUsableStep =>
             /\ CallsOfReply = {}
             /\ exit \in {"none", "Exception"}
             /\ exit = "Exception" => plannerCalls > RepliesSoFar
             /\ exit = "none" => pc \in {"step", "observe", "plan"}
             /\ pc \in {"step", "observe"} => SinceReply = <<>>
             /\ pc = "plan" => (Len(SinceReply) = 1 /\ IsObservation(SinceReply[1])))
    /\ [][(NoUsableStep /\ pc = "step") =>
             /\ pc' \in {"step", "observe"}
             /\ conversation' = conversation
             /\ adbLog' = adbLog
             /\ exit' = "none"]_vars
    /\ [][(NoUsableStep /\ pc = "observe") =>
             /\ pc' = "plan"
             /\ exit' = "none"
             /\ Len(conversation') = Len(conversation) + 1
             /\ IsObservation(conversation'[Len(conversation')])]_vars
    /\ [][(NoUsableStep /\ pc = "plan") => plannerCalls' = plannerCalls + 1]_vars

\* after a reply of empty `Command:` lines the planner has answered again
C18_Witness ==
    /\ plannerCalls = 2
    /\ RepliesSoFar = 2
    /\ conversation[Len(conversation) - 2] = Message("assistant", "Command:\nSleep: 1\nCommand:")
    /\ IsObservation(conversation[Len(conversation) - 1])
    /\ StepCalls = {}

(***************************************************************************)
(* More vocabulary: DONE lines inside a reply.                             *)
(***************************************************************************)
\* the lines of a reply that consist of the terminal keyword alone
DoneLines(lines) == {d \in 1..Len(lines) : lines[d] \in DoneSpellings}

\* line c is a `Command:` line whose command the loop hands to the transport
IsSentLine(lines, c) ==
    LET primary == Trim(Slice(lines[c], Len("Command:")))
    IN  /\ IsCommandLine(lines, c)
        /\ primary # ""
        /\ ~TapRejected(NormalizePrimary(primary))

(***************************************************************************)
(* C19.  A line that is the terminal keyword alone (in any case) inside a  *)
(* reply of several lines is skipped.  It creates no step: the steps are   *)
(* the `Command:` lines, none of them the DONE line.  It neither closes    *)
(* nor alters the open step: a `Sleep:` line that follows it still sets    *)
(* the delay of the step opened before it.  It does not end the run: the   *)
(* commands of the `Command:` lines before and after it are handed to the  *)
(* transport as the loop reaches them, and the run is Terminated only when *)
(* the whole trimmed reply is the terminal keyword.                        *)
(***************************************************************************)
C19_DoneLineIsSkipped ==
    LET lines == TrimmedLines(aiOutput)
        dones == DoneLines(lines)
    IN  /\ Terminated => aiOutput \in DoneSpellings
        /\ (dones # {} /\ aiOutput \notin DoneSpellings) =>
               /\ Len(steps) = Cardinality({c \in 1..Len(lines) : IsCommandLine(lines, c)})
               /\ \A k \in 1..Len(steps) :
                      LET c    == steps[k].line
                          mine == SleepLinesOf(lines, c)
                      IN  /\ c \notin dones
                          /\ IsCommandLine(lines, c)
                          /\ steps[k].hasSleep = (mine # {})
                          /\ mine # {} =>
                                 steps[k].sleep =
                                     Times(ParseInt(Trim(Slice(lines[Greatest(mine)],
                                                              Len("Sleep:")))), 1000)
               /\ (pc = "step" /\ plannerCalls = RepliesSoFar) =>
                      {adbLog[i].line : i \in CallsOfReply} =
                          {steps[k].line : k \in {n \in 1..(idx - 1) :
                                                      IsSentLine(lines, steps[n].line)}}

\* both commands around a `done` line were sent, and the `Sleep:` line after
\* it set the delay of the command before it
C19_Witness ==
    /\ pc = "step"
    /\ idx = 3
    /\ DoneLines(TrimmedLines(aiOutput)) = {2}
    /\ steps[1].line = 1 /\ steps[1].sleep = Num(-1000)
    /\ steps[2].line = 4
    /\ Cardinality(CallsOfReply) = 2

(***************************************************************************)
(* More vocabulary: the turns of the conversation.                         *)
(***************************************************************************)
\* the positions of the planner's replies in the conversation
ReplyPositions == {i \in 1..Len(conversation) : conversation[i].role = "assistant"}

\* which reply, counted from 1, stands at position p
TurnOfReply(p) == Cardinality({i \in ReplyPositions : i <= p})

\* the step commands of turn t that succeeded
SucceededInTurn(t) ==
    Cardinality({i \in StepCalls : adbLog[i].turn = t /\ adbLog[i].result = "ok"})

(***************************************************************************)
(* C20.  The planner is called only when the newest message of the         *)
(* conversation is a system `UI Context: ` message; and between two        *)
(* consecutive replies of the planner the conversation holds UI Context    *)
(* messages only, exactly one more than the steps of the earlier reply     *)
(* that were executed successfully.                                        *)
(***************************************************************************)
C20_ObservationsBetweenReplies ==
    /\ pc = "plan" => IsObservation(conversation[Len(conversation)])
    /\ \A p, q \in ReplyPositions :
           (p < q /\ \A r \in ReplyPositions : ~(p < r /\ r < q)) =>
               /\ \A i \in (p + 1)..(q - 1) : IsObservation(conversation[i])
               /\ q - p - 1 = 1 + SucceededInTurn(TurnOfReply(p))

\* two steps of the first reply succeeded: three observations precede the
\* second reply
C20_Witness ==
    /\ RepliesSoFar = 2
    /\ SucceededInTurn(1) = 2
    /\ conversation[Len(conversation)].role = "assistant"
    /\ conversation[Len(conversation) - 4].role = "assistant"

====
